---- MODULE Spec2Model ----
(***************************************************************************)
(* The chunk-content walk of turbopack-core (crates/turbopack-core/src/    *)
(* chunk/mod.rs): the reference classifier reference_to_graph_nodes, the   *)
(* visitor ChunkContentVisit, and chunk_content / chunk_content_split with *)
(* the assembler of chunk_content_internal_parallel.                       *)
(*                                                                         *)
(* The asset graph and the trait implementations the walk calls            *)
(* (ChunkItem::references, the ChunkableAsset cast, from_asset,            *)
(* from_async_asset, can_be_in_same_chunk, AvailableAssets::includes) are  *)
(* the environment.  Every such call is memoized by the task runtime: the  *)
(* first call fixes the answer, later calls return it.  The variables refs *)
(* and facts are these memo tables; an unanswered call may answer either   *)
(* way.                                                                    *)
(***************************************************************************)
EXTENDS Integers, Sequences, FiniteSets, TLC

\* ------------------------------------------------------------- bounds
\* Number of assets of the module graph; asset 1 is the entry.
NumAssets == 3
\* Primary assets one reference may resolve to.
MaxTargets == 2
\* Length of additional_entries.
MaxAdditional == 1
\* References of the whole graph.
MaxRefs == 2
\* Size of the input: the additional entries plus the primary assets of all
\* references (a reference without primary assets counts one).
MaxSize == 3
\* mod.rs:696 sets 5000; the model scales the limit down so that walks
\* reach it.
MAX_CHUNK_ITEMS_COUNT == 3

Assets == 1..NumAssets

\* mod.rs:347-370
ChunkingType ==
    {"Placed", "PlacedOrParallel", "Parallel", "IsolatedParallel",
     "Separate", "SeparateAsync"}

\* Option<T>: None is the empty sequence, Some(x) the one-element sequence.
None == <<>>
Some(x) == <<x>>

\* ------------------------------------------------------------ values
\* ChunkContentGraphNode (mod.rs:522-534).  Every node is a record of the
\* same four fields so that nodes of different variants compare.
\* ChunkItem(I): the chunk item made from `asset` by from_asset or by
\* from_async_asset (the manifest loader).
ChunkItemNode(from, asset) ==
    [tag |-> "ChunkItem", asset |-> asset, info |-> from, root |-> 0]
AvailableAssetNode(asset) ==
    [tag |-> "AvailableAsset", asset |-> asset, info |-> "", root |-> 0]
\* A variant of the Chunk node in which every child chunk is built with an
\* inherited available-assets set.
ChunkNode_inheriting(asset, info) ==
    [tag |-> "Chunk", asset |-> asset, info |-> "Inner", root |-> info.root]
\* Chunk(chunk): as_chunk is memoized on (asset, availability_info), so the
\* chunk is identified by the asset and the availability info handed over.
ChunkNode(asset, info) ==
    [tag |-> "Chunk", asset |-> asset, info |-> info.kind, root |-> info.root]
\* AsyncChunkGroup(ChunkGroup::from_asset(asset, _, availability_info))
AsyncChunkGroupNode(asset, info) ==
    [tag |-> "AsyncChunkGroup", asset |-> asset, info |-> info.kind,
     root |-> info.root]
\* ExternalAssetReference(reference): a reference is identified by the chunk
\* item that lists it and its position in that list.
ExternalAssetReferenceNode(reference) ==
    [tag |-> "ExternalAssetReference", asset |-> reference.source.asset,
     info |-> reference.source.info, root |-> reference.index]

\* AvailabilityInfo::Root { current_availability_root }
RootInfo(asset) == [kind |-> "Root", root |-> asset]
\* AvailabilityInfo::Inner { available_assets, current_availability_root }
InnerInfo(asset) == [kind |-> "Inner", root |-> asset]

\* The shapes a reference can have: not a ChunkableAssetReference, one
\* whose chunking_type() is None, or one with a chunking type and the
\* primary assets it resolves to.
TargetSeqs == UNION {[1..n -> Assets] : n \in 1..MaxTargets}
RefShapes ==
    {[chunkable |-> FALSE, chunking_type |-> "None", primary |-> <<>>],
     [chunkable |-> TRUE, chunking_type |-> "None", primary |-> <<>>]}
    \cup [chunkable : {TRUE}, chunking_type : ChunkingType,
          primary : TargetSeqs]
Cost(shape) == IF shape.primary = <<>> THEN 1 ELSE Len(shape.primary)
\* The lists of at most n references of total cost at most k.
RECURSIVE RefLists(_, _)
RefLists(n, k) ==
    IF n = 0 THEN {<<>>}
    ELSE {<<>>} \cup
         UNION {{<<shape>> \o rest : rest \in RefLists(n - 1, k - Cost(shape))}
                : shape \in {sh \in RefShapes : Cost(sh) <= k}}

VARIABLES
    \* the environment (memo tables of the task runtime)
    refs,                 \* ChunkItem::references(), per chunk item node
    facts,                \* answers of the asset oracles, per <<call, asset>>
    \* the arguments of chunk_content / chunk_content_split
    additional_entries,
    availability_info,
    split,
    \* ChunkContentVisit
    chunk_items_count,
    processed_assets,
    \* the traversal: ReverseTopological store and pending edges futures
    adjacency_map,
    roots,
    futures,
    \* what the entry point returned
    phase,                \* "idle", "running", "done"
    outcome,              \* "pending", "result", "no_result", "error", "panic"
    chunk_items,
    chunks,
    async_chunk_groups,
    external_asset_references,
    result_availability_info,
    \* history
    retried,              \* this walk is the caller's retry with split = true
    log,                  \* the edges visited, in order, with the verdicts
    expanded,             \* per chunk item node, the edges futures completed
    classified,           \* per reference, what the classifier returned
    previous              \* what the same call returned the time before

\* ChunkGroup (mod.rs:140-263) and one call of ChunkGroup::chunks
VARIABLES
    chunking_context,     \* does it implement EvaluateChunkingContext
    group,                \* the ChunkGroup value, once built
    built_by,             \* the constructor call that built it
    chunk_references,     \* Chunk::references(), per chunk
    traversal,            \* SkipDuplicates<ReverseTopological> and futures
    chunk_children,       \* what get_chunk_children returned, per chunk
    group_phase,          \* "idle", "built", "running", "done"
    group_chunks,         \* the chunk list handed to the optimizer
    output_assets,        \* what ChunkGroup::chunks returned
    returned_before       \* history: the lists of the run before

\* ModuleId::parse and Display (mod.rs:37-70)
VARIABLES
    id_string,            \* the string handed to ModuleId::parse
    module_id,            \* the ModuleId it returned
    displayed             \* the string Display wrote for it

\* get_package_deps (package_deps.rs:13-116)
VARIABLES
    package_path,         \* the package directory, relative to the root
    head,                 \* the blobs of HEAD, per root-relative path
    worktree,             \* the files of the working tree, per path
    hashes,               \* GitHashes
    to_hash,              \* the paths append_git_status collected
    stdout,               \* the records of git status not read yet
    deps_phase            \* "idle", "status", "done"

group_vars ==
    <<chunking_context, group, built_by, chunk_references, traversal,
      chunk_children, group_phase, group_chunks, output_assets,
      returned_before>>
id_vars == <<id_string, module_id, displayed>>
deps_vars ==
    <<package_path, head, worktree, hashes, to_hash, stdout, deps_phase>>

walk_vars ==
    <<refs, facts, additional_entries, availability_info, split,
      chunk_items_count, processed_assets, adjacency_map, roots, futures,
      phase, outcome, chunk_items, chunks, async_chunk_groups,
      external_asset_references, result_availability_info, retried, log,
      expanded, classified, previous>>

vars == <<walk_vars, group_vars, id_vars, deps_vars>>

\* The entry asset of the walk.
entry == 1

EmptyFn == [x \in {} |-> TRUE]

\* --------------------------------------------------------- environment
\* A memoized call: the recorded answer, or either answer when the call is
\* made for the first time.
Ask(f, k) ==
    IF k \in DOMAIN f
    THEN {[facts |-> f, val |-> f[k]]}
    ELSE {[facts |-> (k :> b) @@ f, val |-> b] : b \in BOOLEAN}

\* availability_info.available_assets() is Some only for Inner.
includes(context, f, asset) ==
    IF context.availability_info.kind = "Inner"
    THEN Ask(f, <<"includes", asset>>)
    ELSE {[facts |-> f, val |-> FALSE]}

\* ----------------------------------------------------------- classifier
\* One outcome of an async call: the memo table after it, Ok or Err, and
\* the edges it returned.
Ok(f, es) == [facts |-> f, result |-> "Ok", edges |-> es]
Err(f) == [facts |-> f, result |-> "Err", edges |-> <<>>]

\* An edge of the traversal: (Option<(asset, chunking_type)>, node).
Edge(key, node) == [key |-> key, node |-> node]

\* A variant of the early return that keeps what was pushed before.
EarlyReturn_keeping(graph_nodes, reference) ==
    Append(graph_nodes, Edge(None, ExternalAssetReferenceNode(reference)))

\* mod.rs:591-594 and 682-685: the early return replaces what was pushed
\* to graph_nodes by the one un-keyed ExternalAssetReference edge.
EarlyReturn(graph_nodes, reference) ==
    <<Edge(None, ExternalAssetReferenceNode(reference))>>

\* mod.rs:577-689, the loop over the resolved primary assets, from the
\* i-th asset on, with graph_nodes as pushed so far.
RECURSIVE ForAssets(_, _, _, _, _)
ForAssets(context, f, reference, i, graph_nodes) ==
    IF i > Len(reference.primary)
    THEN {Ok(f, graph_nodes)}
    ELSE
    LET asset == reference.primary[i]
        chunking_type == reference.chunking_type
        \* graph_nodes.push((Some((asset, chunking_type)), node)); continue
        push(f2, node) ==
            ForAssets(context, f2, reference, i + 1,
                      Append(graph_nodes,
                             Edge(Some(<<asset, chunking_type>>), node)))
        \* return Ok(vec![(None, ExternalAssetReference(reference))])
        external(f2) == {Ok(f2, EarlyReturn(graph_nodes, reference))}
        \* chunkable_asset.as_chunk(chunking_context, availability_info)
        parallel(f2) ==
            push(f2, ChunkNode(asset, context.availability_info))
        dispatch(f2) ==
            CASE chunking_type = "Placed" ->
                   UNION {IF a.val
                          THEN push(a.facts, ChunkItemNode("from_asset", asset))
                          ELSE {Err(a.facts)}
                          : a \in Ask(f2, <<"from_asset", asset>>)}
              [] chunking_type = "Parallel" -> parallel(f2)
              [] chunking_type = "IsolatedParallel" ->
                   push(f2, ChunkNode(asset, RootInfo(asset)))
              [] chunking_type = "PlacedOrParallel" ->
                   IF ~context.split
                   THEN UNION {
                     IF s.val
                     THEN UNION {IF a.val
                                 THEN push(a.facts,
                                           ChunkItemNode("from_asset", asset))
                                 ELSE parallel(a.facts)
                                 : a \in Ask(s.facts, <<"from_asset", asset>>)}
                     ELSE parallel(s.facts)
                     : s \in Ask(f2, <<"can_be_in_same_chunk", asset>>)}
                   ELSE parallel(f2)
              [] chunking_type = "Separate" ->
                   push(f2, AsyncChunkGroupNode(asset,
                                                context.availability_info))
              [] chunking_type = "SeparateAsync" ->
                   UNION {IF a.val
                          THEN push(a.facts,
                                    ChunkItemNode("from_async_asset", asset))
                          ELSE external(a.facts)
                          : a \in Ask(f2, <<"from_async_asset", asset>>)}
    IN  UNION {
          IF av.val
          THEN push(av.facts, AvailableAssetNode(asset))
          ELSE UNION {IF c.val THEN dispatch(c.facts) ELSE external(c.facts)
                      : c \in Ask(av.facts, <<"ChunkableAsset", asset>>)}
          : av \in includes(context, f, asset)}

\* A variant of the classifier that turns the Placed error into the
\* ExternalAssetReference downgrade.
reference_to_graph_nodes_lenient(context, f, reference) ==
    IF ~reference.chunkable \/ reference.chunking_type = "None"
    THEN {Ok(f, <<Edge(None, ExternalAssetReferenceNode(reference))>>)}
    ELSE {IF r.result = "Err"
          THEN Ok(r.facts, <<Edge(None, ExternalAssetReferenceNode(reference))>>)
          ELSE r
          : r \in ForAssets(context, f, reference, 1, <<>>)}

\* mod.rs:544-692
reference_to_graph_nodes(context, f, reference) ==
    IF ~reference.chunkable
    THEN {Ok(f, <<Edge(None, ExternalAssetReferenceNode(reference))>>)}
    ELSE IF reference.chunking_type = "None"
    THEN {Ok(f, <<Edge(None, ExternalAssetReferenceNode(reference))>>)}
    ELSE ForAssets(context, f, reference, 1, <<>>)

\* The i-th reference of chunk item node `source`, of shape rs[i].
Reference(source, rs, i) ==
    [source |-> source, index |-> i, chunkable |-> rs[i].chunkable,
     chunking_type |-> rs[i].chunking_type, primary |-> rs[i].primary]

\* mod.rs:769-777: the classifier over every reference of the chunk item,
\* try_join (the first Err is the result), flatten.  per keeps what the
\* classifier returned for each reference.
RECURSIVE JoinReferences(_, _, _, _, _, _, _)
JoinReferences(context, f, source, rs, i, acc, per) ==
    IF i > Len(rs)
    THEN {[facts |-> f, result |-> "Ok", edges |-> acc, per |-> per]}
    ELSE UNION {
           IF r.result = "Err"
           THEN {[facts |-> r.facts, result |-> "Err", edges |-> <<>>,
                  per |-> Append(per, [result |-> "Err", edges |-> <<>>])]}
           ELSE JoinReferences(context, r.facts, source, rs, i + 1,
                               acc \o r.edges,
                               Append(per, [result |-> "Ok",
                                            edges |-> r.edges]))
           : r \in reference_to_graph_nodes(context, f,
                                            Reference(source, rs, i))}

\* A variant in which every node that stands for an asset has edges.
HasEdges_any_asset(node) == node.tag # "ExternalAssetReference"

\* mod.rs:756-766: the edges future of a node reads references only when
\* the node is a ChunkItem.
HasEdges(node) == node.tag = "ChunkItem"

\* mod.rs:755-779, ChunkContentVisit::edges: only a ChunkItem has edges.
edges(context, f, node, rs) ==
    IF HasEdges(node)
    THEN JoinReferences(context, f, node, rs, 1, <<>>, <<>>)
    ELSE {[facts |-> f, result |-> "Ok", edges |-> <<>>, per |-> <<>>]}

\* ------------------------------------------------------------- visitor
\* Variants of visit with a slip in it: the duplicate check left out, the
\* size check with > for >=, the size check made also when splitting.
visit_no_dedup(self, edge) ==
    IF edge.key = None
    THEN [flow |-> "Continue", self |-> self]
    ELSE
    LET key == <<edge.key[1][2], edge.key[1][1]>>
        inserted == [self EXCEPT !.processed_assets = @ \cup {key}]
    IN  IF edge.node.tag = "ChunkItem"
        THEN LET counted == [inserted EXCEPT !.chunk_items_count = @ + 1]
             IN  IF ~self.context.split
                    /\ counted.chunk_items_count >= MAX_CHUNK_ITEMS_COUNT
                 THEN [flow |-> "Abort", self |-> counted]
                 ELSE [flow |-> "Continue", self |-> counted]
        ELSE [flow |-> "Continue", self |-> inserted]

\* A variant of visit that skips the edges without a key.
visit_skipping_unkeyed(self, edge) ==
    IF edge.key = None
    THEN [flow |-> "Skip", self |-> self]
    ELSE
    LET key == <<edge.key[1][2], edge.key[1][1]>>
        inserted == [self EXCEPT !.processed_assets = @ \cup {key}]
    IN  IF key \in self.processed_assets
        THEN [flow |-> "Skip", self |-> self]
        ELSE IF edge.node.tag = "ChunkItem"
        THEN LET counted == [inserted EXCEPT !.chunk_items_count = @ + 1]
             IN  IF ~self.context.split
                    /\ counted.chunk_items_count >= MAX_CHUNK_ITEMS_COUNT
                 THEN [flow |-> "Abort", self |-> counted]
                 ELSE [flow |-> "Continue", self |-> counted]
        ELSE [flow |-> "Continue", self |-> inserted]

visit_off_by_one(self, edge) ==
    IF edge.key = None
    THEN [flow |-> "Continue", self |-> self]
    ELSE
    LET key == <<edge.key[1][2], edge.key[1][1]>>
        inserted == [self EXCEPT !.processed_assets = @ \cup {key}]
    IN  IF key \in self.processed_assets
        THEN [flow |-> "Skip", self |-> self]
        ELSE IF edge.node.tag = "ChunkItem"
        THEN LET counted == [inserted EXCEPT !.chunk_items_count = @ + 1]
             IN  IF ~self.context.split
                    /\ counted.chunk_items_count > MAX_CHUNK_ITEMS_COUNT
                 THEN [flow |-> "Abort", self |-> counted]
                 ELSE [flow |-> "Continue", self |-> counted]
        ELSE [flow |-> "Continue", self |-> inserted]

visit_bound_when_split(self, edge) ==
    IF edge.key = None
    THEN [flow |-> "Continue", self |-> self]
    ELSE
    LET key == <<edge.key[1][2], edge.key[1][1]>>
        inserted == [self EXCEPT !.processed_assets = @ \cup {key}]
    IN  IF key \in self.processed_assets
        THEN [flow |-> "Skip", self |-> self]
        ELSE IF edge.node.tag = "ChunkItem"
        THEN LET counted == [inserted EXCEPT !.chunk_items_count = @ + 1]
             IN  IF counted.chunk_items_count >= MAX_CHUNK_ITEMS_COUNT
                 THEN [flow |-> "Abort", self |-> counted]
                 ELSE [flow |-> "Continue", self |-> counted]
        ELSE [flow |-> "Continue", self |-> inserted]

\* mod.rs:725-753, ChunkContentVisit::visit on self = [context,
\* chunk_items_count, processed_assets]: the control flow and self after.
visit(self, edge) ==
    IF edge.key = None
    THEN [flow |-> "Continue", self |-> self]
    ELSE
    LET asset == edge.key[1][1]
        chunking_type == edge.key[1][2]
        key == <<chunking_type, asset>>
    IN  IF key \in self.processed_assets
        THEN [flow |-> "Skip", self |-> self]
        ELSE
        LET inserted ==
                [self EXCEPT !.processed_assets = @ \cup {key}]
        IN  IF edge.node.tag = "ChunkItem"
            THEN LET counted ==
                         [inserted EXCEPT !.chunk_items_count = @ + 1]
                 IN  IF ~self.context.split
                        /\ counted.chunk_items_count >= MAX_CHUNK_ITEMS_COUNT
                     THEN [flow |-> "Abort", self |-> counted]
                     ELSE [flow |-> "Continue", self |-> counted]
            ELSE [flow |-> "Continue", self |-> inserted]

\* ----------------------------------------------------------- traversal
\* GraphStore::insert of ReverseTopological: the node is pushed to the
\* roots (no parent) or to the parent's adjacency list.
StoreInsert(adj, rts, from, node) ==
    IF from = None
    THEN [adjacency_map |-> adj, roots |-> Append(rts, node)]
    ELSE LET parent == from[1]
             children == IF parent \in DOMAIN adj THEN adj[parent] ELSE <<>>
         IN  [adjacency_map |->
                  [n \in DOMAIN adj \cup {parent} |->
                      IF n = parent THEN Append(children, node) ELSE adj[n]],
              roots |-> rts]

\* FuturesUnordered as a bag of handles: pushing and taking one future.
\* The edges future of a node that is no ChunkItem resolves to no edges at
\* once and changes nothing; only chunk item futures are kept.
FuturesPush(fs, node) ==
    IF ~HasEdges(node) THEN fs
    ELSE [n \in DOMAIN fs \cup {node} |->
             IF n \in DOMAIN fs THEN fs[n] + (IF n = node THEN 1 ELSE 0)
             ELSE 1]
FuturesTake(fs, node) ==
    [n \in {m \in DOMAIN fs : m # node \/ fs[m] > 1} |->
        IF n = node THEN fs[n] - 1 ELSE fs[n]]

\* GraphTraversal::visit, the loop over the edges one future returned (or
\* over the root edges, from = None), from the i-th edge on.  t holds the
\* visitor, the store, the futures, the log and whether the visitor
\* aborted.  Continue inserts the node and pushes its edges future, Skip
\* inserts the node only, Abort ends the traversal.
RECURSIVE VisitEdges(_, _, _, _)
VisitEdges(t, from, es, i) ==
    IF i > Len(es) \/ t.aborted
    THEN t
    ELSE
    LET v == visit(t.self, es[i])
        st == StoreInsert(t.adjacency_map, t.roots, from, es[i].node)
        entry_log == [from |-> from, key |-> es[i].key, node |-> es[i].node,
                      flow |-> v.flow]
        t2 == [t EXCEPT !.self = v.self, !.log = Append(@, entry_log)]
    IN  CASE v.flow = "Continue" ->
               VisitEdges([t2 EXCEPT !.adjacency_map = st.adjacency_map,
                                     !.roots = st.roots,
                                     !.futures = FuturesPush(@, es[i].node)],
                          from, es, i + 1)
          [] v.flow = "Skip" ->
               VisitEdges([t2 EXCEPT !.adjacency_map = st.adjacency_map,
                                     !.roots = st.roots],
                          from, es, i + 1)
          [] v.flow = "Abort" -> [t2 EXCEPT !.aborted = TRUE]

Reverse(s) == [k \in 1..Len(s) |-> s[Len(s) + 1 - k]]
Pre(s) == [k \in 1..Len(s) |-> [pass |-> "Pre", node |-> s[k]]]

\* ReverseTopological::into_iter: depth-first over the adjacency map from
\* the roots, each node once, a node after the nodes it points to.
RECURSIVE ReverseTopologicalIter(_, _, _, _)
ReverseTopologicalIter(adj, stack, visited, out) ==
    IF stack = <<>>
    THEN out
    ELSE
    LET top == stack[Len(stack)]
        rest == SubSeq(stack, 1, Len(stack) - 1)
    IN  IF top.pass = "Post"
        THEN ReverseTopologicalIter(adj, rest, visited, Append(out, top.node))
        ELSE IF top.node \in visited
        THEN ReverseTopologicalIter(adj, rest, visited, out)
        ELSE IF top.node \notin DOMAIN adj
        THEN ReverseTopologicalIter(adj, rest, visited \cup {top.node},
                                    Append(out, top.node))
        ELSE ReverseTopologicalIter(
                 adj,
                 rest \o <<[pass |-> "Post", node |-> top.node]>>
                      \o Pre(Reverse(adj[top.node])),
                 visited \cup {top.node}, out)

ReverseTopologicalOrder(adj, rts) ==
    ReverseTopologicalIter(adj, Pre(Reverse(rts)), {}, <<>>)

\* ------------------------------------------------------------ assembler
RECURSIVE Bucket(_, _)
Bucket(graph_nodes, tag) ==
    IF graph_nodes = <<>> THEN <<>>
    ELSE IF Head(graph_nodes).tag = tag
    THEN <<Head(graph_nodes)>> \o Bucket(Tail(graph_nodes), tag)
    ELSE Bucket(Tail(graph_nodes), tag)

\* A variant of the assembler that fills chunk_items back to front.
Assemble_reversed(graph_nodes, info) ==
    [chunk_items |-> Reverse(Bucket(graph_nodes, "ChunkItem")),
     chunks |-> Bucket(graph_nodes, "Chunk"),
     async_chunk_groups |-> Bucket(graph_nodes, "AsyncChunkGroup"),
     external_asset_references |->
         Bucket(graph_nodes, "ExternalAssetReference"),
     availability_info |-> info]

\* mod.rs:831-863: the four buckets of the traversal's nodes;
\* AvailableAsset nodes go nowhere.
Assemble(graph_nodes, info) ==
    [chunk_items |-> Bucket(graph_nodes, "ChunkItem"),
     chunks |-> Bucket(graph_nodes, "Chunk"),
     async_chunk_groups |-> Bucket(graph_nodes, "AsyncChunkGroup"),
     external_asset_references |->
         Bucket(graph_nodes, "ExternalAssetReference"),
     availability_info |-> info]

\* mod.rs:798-810: the root edges, entry first, then additional_entries;
\* from_asset(..).unwrap() panics on None.
RECURSIVE RootEdges(_, _, _, _)
RootEdges(f, entries, i, acc) ==
    IF i > Len(entries)
    THEN {[facts |-> f, result |-> "Ok", edges |-> acc]}
    ELSE UNION {
           IF a.val
           THEN RootEdges(a.facts, entries, i + 1,
                          Append(acc,
                                 Edge(Some(<<entries[i], "Placed">>),
                                      ChunkItemNode("from_asset",
                                                    entries[i]))))
           ELSE {[facts |-> a.facts, result |-> "Panic", edges |-> <<>>]}
           : a \in Ask(f, <<"from_asset", entries[i]>>)}

\* The state of a traversal before its first root.
EmptyTraversal ==
    [visited |-> {}, adjacency_map |-> EmptyFn, roots |-> <<>>,
     futures |-> {}]

\* No chunk group is built, no module id parsed, no package looked at.
GroupIdle ==
    /\ chunking_context = [evaluate |-> FALSE]
    /\ group = None
    /\ built_by = None
    /\ chunk_references = EmptyFn
    /\ traversal = EmptyTraversal
    /\ chunk_children = EmptyFn
    /\ group_phase = "idle"
    /\ group_chunks = <<>>
    /\ output_assets = <<>>
    /\ returned_before = None
ModuleIdIdle ==
    /\ id_string = <<>>
    /\ module_id = None
    /\ displayed = None
PackageDepsIdle ==
    /\ package_path = <<>>
    /\ head = EmptyFn
    /\ worktree = EmptyFn
    /\ hashes = EmptyFn
    /\ to_hash = <<>>
    /\ stdout = <<>>
    /\ deps_phase = "idle"

\* -------------------------------------------------------------- actions
AdditionalEntries == UNION {[1..n -> Assets] : n \in 0..MaxAdditional}

Init ==
    /\ refs = EmptyFn
    /\ facts = EmptyFn
    /\ additional_entries \in AdditionalEntries
    /\ availability_info \in {RootInfo(entry), InnerInfo(entry)}
    /\ split = FALSE
    /\ chunk_items_count = 0
    /\ processed_assets = {}
    /\ adjacency_map = EmptyFn
    /\ roots = <<>>
    /\ futures = EmptyFn
    /\ phase = "idle"
    /\ outcome = "pending"
    /\ chunk_items = <<>>
    /\ chunks = <<>>
    /\ async_chunk_groups = <<>>
    /\ external_asset_references = <<>>
    /\ result_availability_info = None
    /\ retried = FALSE
    /\ log = <<>>
    /\ expanded = EmptyFn
    /\ classified = EmptyFn
    /\ previous = None
    /\ GroupIdle /\ ModuleIdIdle /\ PackageDepsIdle

\* ChunkContentContext (mod.rs:812-817)
\* A variant of the context that never tells the classifier of the split.
ChunkContentContext_never_split(sp) ==
    [entry |-> entry, availability_info |-> availability_info,
     split |-> FALSE]

\* mod.rs:812-817
ChunkContentContext(sp) ==
    [entry |-> entry, availability_info |-> availability_info, split |-> sp]

NoResult ==
    /\ chunk_items' = <<>>
    /\ chunks' = <<>>
    /\ async_chunk_groups' = <<>>
    /\ external_asset_references' = <<>>
    /\ result_availability_info' = None

\* What the entry point hands back for the Option the walk returned
\* (mod.rs:504-506 and 518-519): chunk_content_split unwraps it.
Returned(sp, option) ==
    IF sp /\ option = "no_result" THEN "panic" ELSE option

\* The traversal after a batch of edges (mod.rs:826-863): aborted, so the
\* walk returns None; no future left, so it is completed and its nodes are
\* put into the buckets; or still running.
Settle(t, sp) ==
    /\ chunk_items_count' = t.self.chunk_items_count
    /\ processed_assets' = t.self.processed_assets
    /\ adjacency_map' = t.adjacency_map
    /\ roots' = t.roots
    /\ futures' = t.futures
    /\ log' = t.log
    /\ IF t.aborted
       THEN /\ phase' = "done"
            /\ outcome' = Returned(sp, "no_result")
            /\ NoResult
       ELSE IF DOMAIN t.futures = {}
       THEN LET r == Assemble(ReverseTopologicalOrder(t.adjacency_map,
                                                      t.roots),
                              availability_info)
            IN  /\ phase' = "done"
                /\ outcome' = Returned(sp, "result")
                /\ chunk_items' = r.chunk_items
                /\ chunks' = r.chunks
                /\ async_chunk_groups' = r.async_chunk_groups
                /\ external_asset_references' = r.external_asset_references
                /\ result_availability_info' = Some(r.availability_info)
       ELSE /\ phase' = "running"
            /\ outcome' = "pending"
            /\ NoResult

\* The walk ends without a traversal result: an error or a panic.
Fail(how) ==
    /\ phase' = "done"
    /\ outcome' = how
    /\ futures' = EmptyFn
    /\ NoResult

\* mod.rs:782-829, chunk_content_internal_parallel up to the first await of
\* the traversal: the root edges are made and visited.
Start(sp) ==
    /\ split' = sp
    /\ expanded' = EmptyFn
    /\ classified' = EmptyFn
    /\ UNCHANGED <<refs, additional_entries, availability_info>>
    /\ \E r \in RootEdges(facts, <<entry>> \o additional_entries, 1, <<>>) :
         /\ facts' = r.facts
         /\ IF r.result = "Panic"
            THEN /\ Fail("panic")
                 /\ chunk_items_count' = 0
                 /\ processed_assets' = {}
                 /\ adjacency_map' = EmptyFn
                 /\ roots' = <<>>
                 /\ log' = <<>>
            ELSE Settle(VisitEdges([self |-> [context |-> ChunkContentContext(sp),
                                              chunk_items_count |-> 0,
                                              processed_assets |-> {}],
                                    adjacency_map |-> EmptyFn,
                                    roots |-> <<>>,
                                    futures |-> EmptyFn,
                                    log |-> <<>>,
                                    aborted |-> FALSE],
                                   None, r.edges, 1),
                        sp)

\* mod.rs:509-520
chunk_content ==
    /\ phase = "idle"
    /\ retried' = FALSE
    /\ UNCHANGED <<previous, group_vars, id_vars, deps_vars>>
    /\ Start(FALSE)

\* mod.rs:495-507, called first or, as the callers do, after chunk_content
\* returned None for the same arguments.
chunk_content_split ==
    /\ \/ phase = "idle"
       \/ phase = "done" /\ outcome = "no_result" /\ ~split
    /\ retried' = (phase = "done")
    /\ previous' = None
    /\ UNCHANGED <<group_vars, id_vars, deps_vars>>
    /\ Start(TRUE)

\* The references known so far, and the size of the input known so far.
RECURSIVE SumSeq(_)
SumSeq(q) == IF q = <<>> THEN 0 ELSE Head(q) + SumSeq(Tail(q))
RECURSIVE SumOver(_, _)
SumOver(g, S) ==
    IF S = {} THEN 0
    ELSE LET x == CHOOSE y \in S : TRUE IN g[x] + SumOver(g, S \ {x})
RefCount(rf) == SumOver([n \in DOMAIN rf |-> Len(rf[n])], DOMAIN rf)
Size(rf, additional) ==
    Len(additional)
    + SumOver([n \in DOMAIN rf |->
                  SumSeq([i \in 1..Len(rf[n]) |-> Cost(rf[n][i])])],
              DOMAIN rf)

\* ChunkItem::references() of a chunk item: the memoized list, or any list
\* within the bounds on the first call.
references(rf, additional, node) ==
    IF node \in DOMAIN rf
    THEN {rf[node]}
    ELSE RefLists(MaxRefs - RefCount(rf), MaxSize - Size(rf, additional))

\* One edges future completes (GraphTraversalFuture::poll): an Err ends the
\* walk with that error; otherwise its edges are visited in order.
Poll(node) ==
    /\ phase = "running"
    /\ node \in DOMAIN futures
    /\ UNCHANGED <<additional_entries, availability_info, split, retried,
                   previous, group_vars, id_vars, deps_vars>>
    /\ \E rs \in references(refs, additional_entries, node) :
         /\ refs' = [n \in DOMAIN refs \cup {node} |->
                        IF n = node THEN rs ELSE refs[n]]
         /\ \E r \in edges(ChunkContentContext(split), facts, node, rs) :
              /\ facts' = r.facts
              /\ expanded' = [n \in DOMAIN expanded \cup {node} |->
                                 IF n \in DOMAIN expanded
                                 THEN expanded[n] + (IF n = node THEN 1 ELSE 0)
                                 ELSE 1]
              /\ classified' =
                     [id \in DOMAIN classified
                              \cup {<<node, i>> : i \in 1..Len(r.per)} |->
                         IF id[1] = node THEN r.per[id[2]]
                         ELSE classified[id]]
              /\ IF r.result = "Err"
                 THEN /\ Fail("error")
                      /\ UNCHANGED <<chunk_items_count, processed_assets,
                                     adjacency_map, roots, log>>
                 ELSE Settle(VisitEdges([self |-> [context |-> ChunkContentContext(split),
                                                   chunk_items_count |-> chunk_items_count,
                                                   processed_assets |-> processed_assets],
                                         adjacency_map |-> adjacency_map,
                                         roots |-> roots,
                                         futures |-> FuturesTake(futures, node),
                                         log |-> log,
                                         aborted |-> FALSE],
                                        Some(node), r.edges, 1),
                             split)

Next ==
    \/ chunk_content
    \/ chunk_content_split
    \/ \E node \in DOMAIN futures : Poll(node)

Spec == Init /\ [][Next]_vars

\* What the entry point returned: the outcome and, for a result, the four
\* lists of the ChunkContentResult (mod.rs:474-480).
Return ==
    [split |-> split, outcome |-> outcome, chunk_items |-> chunk_items,
     chunks |-> chunks, async_chunk_groups |-> async_chunk_groups,
     external_asset_references |-> external_asset_references,
     availability_info |-> result_availability_info]

\* chunk_content is called once more with the same arguments; the task
\* runtime's memo tables (refs, facts) keep the inputs the same.
chunk_content_again ==
    /\ phase = "done" /\ ~split
    /\ previous = None
    /\ previous' = Some(Return)
    /\ UNCHANGED <<retried, group_vars, id_vars, deps_vars>>
    /\ Start(FALSE)

NextAgain ==
    \/ chunk_content
    \/ chunk_content_split
    \/ \E node \in DOMAIN futures : Poll(node)
    \/ chunk_content_again

SpecAgain == Init /\ [][NextAgain]_vars

\* ---------------------------------------------------------- chunk group
\* Bounds of the chunk groups: the other entries of ChunkGroup::evaluated,
\* the references of all chunks of a group, and the primary results of
\* those references.
MaxOthers == 2
MaxChunkRefs == 2
MaxChunkSize == 2

\* ChunkableAsset::as_chunk is memoized on (asset, availability_info);
\* as_root_chunk (mod.rs:128-138) hands over Root { the asset itself }.
as_chunk(asset, info) == ChunkNode(asset, info)
as_root_chunk(asset) == as_chunk(asset, RootInfo(asset))

\* The chunks a reference of a chunk can resolve to, and a primary result
\* that is no Chunk (another asset, or no PrimaryResolveResult::Asset).
GroupChunks == {as_root_chunk(a) : a \in Assets}
NotAChunk == [tag |-> "Asset", asset |-> 0, info |-> "", root |-> 0]

\* The references of a chunk: whether the reference implements
\* ParallelChunkReference, what is_loaded_in_parallel answers, and the
\* primary results of resolve_reference.
ChunkTargetSeqs ==
    UNION {[1..n -> GroupChunks \cup {NotAChunk}] : n \in 1..MaxTargets}
ChunkRefShapes ==
    {r \in [parallel_chunk_reference : BOOLEAN,
            is_loaded_in_parallel : BOOLEAN,
            primary : ChunkTargetSeqs] :
        r.is_loaded_in_parallel => r.parallel_chunk_reference}
RECURSIVE ChunkRefLists(_, _)
ChunkRefLists(n, k) ==
    IF n = 0 \/ k = 0 THEN {<<>>}
    ELSE {<<>>} \cup
         UNION {{<<r>> \o rest :
                    rest \in ChunkRefLists(n - 1, k - Len(r.primary))}
                : r \in {x \in ChunkRefShapes : Len(x.primary) <= k}}

\* ChunkReference::new and ChunkReference::new_parallel (mod.rs:387-438):
\* resolve_reference is the chunk, is_loaded_in_parallel is `parallel`.
ChunkReference_new(chunk) ==
    [parallel_chunk_reference |-> TRUE, is_loaded_in_parallel |-> FALSE,
     primary |-> <<chunk>>]
ChunkReference_new_parallel(chunk) ==
    [parallel_chunk_reference |-> TRUE, is_loaded_in_parallel |-> TRUE,
     primary |-> <<chunk>>]

\* EvaluatableAssets::with_entry appends the entry.
with_entry(evaluatable_assets, entry_asset) ==
    Append(evaluatable_assets, entry_asset)

\* A variant of reference_to_chunks that does not ask
\* is_loaded_in_parallel.
reference_to_chunks_any(r) ==
    IF r.parallel_chunk_reference
    THEN SelectSeq(r.primary, LAMBDA a : a.tag = "Chunk")
    ELSE <<>>

\* mod.rs:282-305: the primary results that are chunks, of a
\* ParallelChunkReference that is loaded in parallel.
reference_to_chunks(r) ==
    IF r.parallel_chunk_reference /\ r.is_loaded_in_parallel
    THEN SelectSeq(r.primary, LAMBDA a : a.tag = "Chunk")
    ELSE <<>>

\* mod.rs:265-279: the chunks of every reference, in the references' order.
RECURSIVE get_chunk_children(_)
get_chunk_children(rs) ==
    IF rs = <<>> THEN <<>>
    ELSE reference_to_chunks(Head(rs)) \o get_chunk_children(Tail(rs))

\* The ChunkGroup value (mod.rs:140-145).
ChunkGroup(context, entry_chunk, evaluatable_assets) ==
    [chunking_context |-> context, entry |-> entry_chunk,
     evaluatable_assets |-> evaluatable_assets]

\* A constructor returns the group.
Built(value, constructor, main_entry, other_entries) ==
    /\ group_phase = "idle"
    /\ group' = Some(value)
    /\ built_by' = Some([constructor |-> constructor,
                         main_entry |-> main_entry,
                         other_entries |-> other_entries])
    /\ group_phase' = "built"
    /\ UNCHANGED <<chunking_context, chunk_references, traversal,
                   chunk_children, group_chunks, output_assets,
                   returned_before,
                   walk_vars, id_vars, deps_vars>>

\* mod.rs:165-176
from_chunk(entry_chunk) ==
    Built(ChunkGroup(chunking_context, entry_chunk, <<>>),
          "from_chunk", 0, <<>>)

\* mod.rs:152-163: from_chunk of the asset's chunk
from_asset(asset, info) ==
    Built(ChunkGroup(chunking_context, as_chunk(asset, info), <<>>),
          "from_asset", 0, <<>>)

\* A variant of ChunkGroup::evaluated that puts the main entry first.
evaluated_main_first(main_entry, other_entries) ==
    Built(ChunkGroup(chunking_context, as_root_chunk(main_entry),
                     <<main_entry>> \o other_entries),
          "evaluated", main_entry, other_entries)

\* mod.rs:178-196
evaluated(main_entry, other_entries) ==
    Built(ChunkGroup(chunking_context, as_root_chunk(main_entry),
                     with_entry(other_entries, main_entry)),
          "evaluated", main_entry, other_entries)

\* A variant of the root chunks without the entry chunk.
entry_chunks_of_evaluatables(g) ==
    {as_root_chunk(g.evaluatable_assets[i]) :
        i \in 1..Len(g.evaluatable_assets)}

\* mod.rs:208-224: the root chunk of every evaluatable asset, collected
\* into a HashSet, and the entry chunk.
entry_chunks(g) ==
    {as_root_chunk(g.evaluatable_assets[i]) :
        i \in 1..Len(g.evaluatable_assets)} \cup {g.entry}

\* The orders in which a HashSet can be iterated.
RECURSIVE Orders(_)
Orders(S) ==
    IF S = {} THEN {<<>>}
    ELSE UNION {{<<x>> \o rest : rest \in Orders(S \ {x})} : x \in S}

\* GraphTraversal::visit over SkipDuplicates<ReverseTopological>, for the
\* root nodes (from = None) or the children one future returned: a node
\* seen before is dropped, a new one is inserted into the store and its
\* edges future pushed.
RECURSIVE InsertAll(_, _, _, _)
InsertAll(t, from, nodes, i) ==
    IF i > Len(nodes) THEN t
    ELSE IF nodes[i] \in t.visited THEN InsertAll(t, from, nodes, i + 1)
    ELSE LET st == StoreInsert(t.adjacency_map, t.roots, from, nodes[i])
         IN  InsertAll([visited |-> t.visited \cup {nodes[i]},
                        adjacency_map |-> st.adjacency_map,
                        roots |-> st.roots,
                        futures |-> t.futures \cup {nodes[i]}],
                       from, nodes, i + 1)

\* The optimizer may merge and reorder the chunks.
MergedChunk == [tag |-> "Chunk", asset |-> 0, info |-> "merged", root |-> 0]
optimize(chunk_list) ==
    {chunk_list, Reverse(chunk_list)}
        \cup (IF Len(chunk_list) >= 2 THEN {<<MergedChunk>>} ELSE {})

\* ChunkingContext::generate_chunk and
\* EvaluateChunkingContext::evaluate_chunk: the output assets.
generate_chunk(chunk) ==
    [kind |-> "generated", chunk |-> chunk, other_assets |-> <<>>,
     evaluatable_assets |-> <<>>]
evaluate_chunk(entry_chunk, other_assets, evaluatable_assets) ==
    [kind |-> "evaluate", chunk |-> entry_chunk,
     other_assets |-> other_assets,
     evaluatable_assets |-> evaluatable_assets]

\* A variant of the output list that gets an evaluate chunk from every
\* EvaluateChunkingContext, evaluatable assets or not.
OutputAssets_always_evaluate(g, optimized) ==
    LET assets == [i \in 1..Len(optimized) |-> generate_chunk(optimized[i])]
    IN  IF g.chunking_context.evaluate
        THEN Append(assets,
                    evaluate_chunk(g.entry, assets, g.evaluatable_assets))
        ELSE assets

\* mod.rs:239-260: the generated chunks, then the evaluate chunk.
OutputAssets(g, optimized) ==
    LET assets == [i \in 1..Len(optimized) |-> generate_chunk(optimized[i])]
    IN  IF g.evaluatable_assets # <<>> /\ g.chunking_context.evaluate
        THEN Append(assets,
                    evaluate_chunk(g.entry, assets, g.evaluatable_assets))
        ELSE assets

\* The traversal after the nodes of one future: no future left, so it is
\* completed (mod.rs:226-260); or still running.
SettleGroup(t) ==
    /\ traversal' = t
    /\ IF t.futures = {}
       THEN LET chunk_list ==
                    ReverseTopologicalOrder(t.adjacency_map, t.roots)
            IN  /\ group_phase' = "done"
                /\ group_chunks' = chunk_list
                /\ \E optimized \in optimize(chunk_list) :
                      output_assets' = OutputAssets(group[1], optimized)
       ELSE /\ group_phase' = "running"
            /\ UNCHANGED <<group_chunks, output_assets>>

\* mod.rs:204-231, ChunkGroup::chunks up to the first await of the
\* traversal: the root chunks are inserted in the order of the HashSet.
chunk_group_chunks ==
    /\ group_phase = "built"
    /\ \E order \in Orders(entry_chunks(group[1])) :
          SettleGroup(InsertAll(EmptyTraversal, None, order, 1))
    /\ UNCHANGED <<chunking_context, group, built_by, chunk_references,
                   chunk_children, returned_before, walk_vars, id_vars,
                   deps_vars>>

\* Chunk::references() of a chunk: the memoized list, or any list within
\* the bounds on the first call.
ChunkRefCount(rf) == SumOver([c \in DOMAIN rf |-> Len(rf[c])], DOMAIN rf)
ChunkRefSize(rf) ==
    SumOver([c \in DOMAIN rf |->
                SumSeq([i \in 1..Len(rf[c]) |-> Len(rf[c][i].primary)])],
            DOMAIN rf)
chunk_refs(rf, chunk) ==
    IF chunk \in DOMAIN rf
    THEN {rf[chunk]}
    ELSE ChunkRefLists(MaxChunkRefs - ChunkRefCount(rf),
                       MaxChunkSize - ChunkRefSize(rf))

\* The get_chunk_children future of one chunk completes and its children
\* are visited.
PollChunk(parent) ==
    /\ group_phase = "running"
    /\ parent \in traversal.futures
    /\ \E rs \in chunk_refs(chunk_references, parent) :
         /\ chunk_references' =
                [c \in DOMAIN chunk_references \cup {parent} |->
                    IF c = parent THEN rs ELSE chunk_references[c]]
         /\ chunk_children' =
                [c \in DOMAIN chunk_children \cup {parent} |->
                    IF c = parent THEN get_chunk_children(rs)
                    ELSE chunk_children[c]]
         /\ SettleGroup(InsertAll([traversal EXCEPT
                                      !.futures = @ \ {parent}],
                                  Some(parent), get_chunk_children(rs), 1))
    /\ UNCHANGED <<chunking_context, group, built_by, returned_before,
                   walk_vars, id_vars, deps_vars>>

\* The state of the walk when no walk is made.
WalkIdle ==
    /\ refs = EmptyFn /\ facts = EmptyFn
    /\ additional_entries = <<>> /\ availability_info = RootInfo(entry)
    /\ split = FALSE /\ chunk_items_count = 0 /\ processed_assets = {}
    /\ adjacency_map = EmptyFn /\ roots = <<>> /\ futures = EmptyFn
    /\ phase = "idle" /\ outcome = "pending"
    /\ chunk_items = <<>> /\ chunks = <<>> /\ async_chunk_groups = <<>>
    /\ external_asset_references = <<>> /\ result_availability_info = None
    /\ retried = FALSE /\ log = <<>> /\ expanded = EmptyFn
    /\ classified = EmptyFn /\ previous = None

InitGroup ==
    /\ WalkIdle /\ ModuleIdIdle /\ PackageDepsIdle
    /\ chunking_context \in [evaluate : BOOLEAN]
    /\ group = None
    /\ built_by = None
    /\ chunk_references = EmptyFn
    /\ traversal = EmptyTraversal
    /\ chunk_children = EmptyFn
    /\ group_phase = "idle"
    /\ group_chunks = <<>>
    /\ output_assets = <<>>
    /\ returned_before = None

OtherEntries == UNION {[1..n -> Assets] : n \in 0..MaxOthers}

NextGroup ==
    \/ \E c \in GroupChunks : from_chunk(c)
    \/ \E a \in Assets : \E info \in {RootInfo(a), InnerInfo(a)} :
          from_asset(a, info)
    \/ \E main_entry \in Assets, other_entries \in OtherEntries :
          evaluated(main_entry, other_entries)
    \/ chunk_group_chunks
    \/ \E parent \in traversal.futures : PollChunk(parent)

SpecGroup == InitGroup /\ [][NextGroup]_vars

\* The optimizer handed the chunk list back as it was.
Unoptimized(chunk_list, assets) ==
    /\ Len(assets) >= Len(chunk_list)
    /\ \A i \in 1..Len(chunk_list) :
          assets[i].kind = "generated" /\ assets[i].chunk = chunk_list[i]

\* ChunkGroup::chunks is run again on the same group, as happens when the
\* task is recomputed: the references of the chunks are as before, the
\* HashSet is a new one.  The second run is followed for the groups whose
\* chunks have MaxAgainRefs references at most, after a run in which the
\* optimizer left the chunk list as it was.
MaxAgainRefs == 1
chunk_group_chunks_again ==
    /\ group_phase = "done" /\ returned_before = None
    /\ ChunkRefCount(chunk_references) <= MaxAgainRefs
    /\ Unoptimized(group_chunks, output_assets)
    /\ returned_before' = Some([group_chunks |-> group_chunks,
                                output_assets |-> output_assets])
    /\ \E order \in Orders(entry_chunks(group[1])) :
          SettleGroup(InsertAll(EmptyTraversal, None, order, 1))
    /\ UNCHANGED <<chunking_context, group, built_by, chunk_references,
                   chunk_children, walk_vars, id_vars, deps_vars>>

NextGroupAgain ==
    \/ \E c \in GroupChunks : from_chunk(c)
    \/ \E a \in Assets : \E info \in {RootInfo(a), InnerInfo(a)} :
          from_asset(a, info)
    \/ \E main_entry \in Assets, other_entries \in OtherEntries :
          evaluated(main_entry, other_entries)
    \/ chunk_group_chunks
    \/ \E parent \in traversal.futures : PollChunk(parent)
    \/ chunk_group_chunks_again

SpecGroupAgain == InitGroup /\ [][NextGroupAgain]_vars

\* ------------------------------------------------------------ module id
\* Strings are sequences of characters.  The strings handed to
\* ModuleId::parse: at most MaxIdLen characters of IdChars, alone or after
\* the first nine digits of u32::MAX.
MaxIdLen == 2
IdChars == {"0", "5", "6", "+", "-", "a"}
NineDigits == <<"4", "2", "9", "4", "9", "6", "7", "2", "9">>
IdStrings ==
    LET short == UNION {[1..n -> IdChars] : n \in 0..MaxIdLen}
    IN  short \cup {NineDigits \o t : t \in short}

\* u32::MAX = 4294967295, as its decimal digits.
U32_MAX == <<"4", "2", "9", "4", "9", "6", "7", "2", "9", "5">>
DecimalDigits == <<"0", "1", "2", "3", "4", "5", "6", "7", "8", "9">>
IsDigit(ch) == \E d \in 1..10 : DecimalDigits[d] = ch
DigitValue(ch) == (CHOOSE d \in 1..10 : DecimalDigits[d] = ch) - 1

\* A u32 is held as its decimal digits without leading zeros, which is
\* what Display writes for it.
RECURSIVE StripZeros(_)
StripZeros(ds) ==
    IF Len(ds) > 1 /\ Head(ds) = "0" THEN StripZeros(Tail(ds)) ELSE ds
RECURSIVE DigitsLessEq(_, _)
DigitsLessEq(a, b) ==
    IF Len(a) # Len(b) THEN Len(a) < Len(b)
    ELSE IF a = <<>> THEN TRUE
    ELSE IF Head(a) # Head(b)
    THEN DigitValue(Head(a)) < DigitValue(Head(b))
    ELSE DigitsLessEq(Tail(a), Tail(b))

\* str::parse::<u32>() (mod.rs:64): an optional "+", then one digit at
\* least and digits only, the value within u32; anything else is an Err.
parse_u32(str) ==
    LET body == IF str # <<>> /\ Head(str) = "+" THEN Tail(str) ELSE str
    IN  IF body = <<>> \/ \E i \in 1..Len(body) : ~IsDigit(body[i])
        THEN [ok |-> FALSE, value |-> <<>>]
        ELSE IF DigitsLessEq(StripZeros(body), U32_MAX)
        THEN [ok |-> TRUE, value |-> StripZeros(body)]
        ELSE [ok |-> FALSE, value |-> <<>>]

\* enum ModuleId (mod.rs:37-44)
Number(i) == [variant |-> "Number", number |-> i, string |-> <<>>]
String(str) == [variant |-> "String", number |-> <<>>, string |-> str]

\* A variant of ModuleId::parse that makes a Number of every digit string.
ModuleId_parse_any_magnitude(str) ==
    LET body == IF str # <<>> /\ Head(str) = "+" THEN Tail(str) ELSE str
    IN  IF body = <<>> \/ \E i \in 1..Len(body) : ~IsDigit(body[i])
        THEN [result |-> "Ok", value |-> String(str)]
        ELSE [result |-> "Ok", value |-> Number(StripZeros(body))]

\* mod.rs:63-70
ModuleId_parse(str) ==
    LET i == parse_u32(str)
    IN  [result |-> "Ok",
         value |-> IF i.ok THEN Number(i.value) ELSE String(str)]

\* mod.rs:46-53, Display for ModuleId
fmt(self) ==
    IF self.variant = "Number" THEN self.number ELSE self.string

\* ModuleId::parse(id) is called.
parse ==
    /\ module_id = None
    /\ module_id' = Some(ModuleId_parse(id_string))
    /\ UNCHANGED <<id_string, displayed, walk_vars, group_vars, deps_vars>>

\* The module id is displayed (to_string, mod.rs:55-61).
to_string ==
    /\ module_id # None /\ displayed = None
    /\ displayed' = Some(fmt(module_id[1].value))
    /\ UNCHANGED <<id_string, module_id, walk_vars, group_vars, deps_vars>>

InitModuleId ==
    /\ WalkIdle /\ GroupIdle /\ PackageDepsIdle
    /\ id_string \in IdStrings
    /\ module_id = None
    /\ displayed = None

NextModuleId == parse \/ to_string

SpecModuleId == InitModuleId /\ [][NextModuleId]_vars

\* --------------------------------------------------------- package deps
\* turborepo-scm, package_deps.rs.  A path is the sequence of its
\* components.  The repository has the files of Files at most; the package
\* is the repository root (<<>>) or the directory p.
Files == {<<"a">>, <<"b">>, <<"p", "a">>, <<"p", "b">>}
FileOrder == <<<<"a">>, <<"b">>, <<"p", "a">>, <<"p", "b">>>>
PackagePaths == {<<>>, <<"p">>}
NumHashes == 2
Hashes == 1..NumHashes

\* The two status columns git status prints for a path: unchanged (not
\* printed), deleted in the working tree, deleted in the index, modified,
\* untracked.
Unchanged == <<" ", " ">>
TrackedStatus == {Unchanged, <<" ", "D">>, <<"D", " ">>, <<" ", "M">>}
Untracked == <<"?", "?">>

IsPrefix(dir, path) ==
    Len(dir) <= Len(path) /\ SubSeq(path, 1, Len(dir)) = dir
RelativeTo(dir, path) == SubSeq(path, Len(dir) + 1, Len(path))

\* git ls-tree -r -z HEAD, run in root_path: the files of HEAD under that
\* directory, each with its path relative to that directory
\* (package_deps.rs:81-116).
git_ls_tree(root_path) ==
    LET under == {f \in DOMAIN head : IsPrefix(root_path, f)}
        keys == {RelativeTo(root_path, f) : f \in under}
    IN  [k \in keys |-> head[root_path \o k]]

\* One record of git status -z: the two columns, a space, the path.
StatusRecord(path) ==
    <<worktree[path][1], worktree[path][2], " ", path>>

\* git status --untracked-files --no-renames -z -- . run in root_path
\* (package_deps.rs:35-47): the changed tracked paths, then the untracked
\* ones, each relative to the top of the repository.
git_status(root_path) ==
    LET listed(f) == f \in DOMAIN worktree /\ IsPrefix(root_path, f)
        changed == SelectSeq(FileOrder, LAMBDA f :
                      listed(f) /\ worktree[f] \notin {Unchanged, Untracked})
        untracked == SelectSeq(FileOrder, LAMBDA f :
                      listed(f) /\ worktree[f] = Untracked)
    IN  [i \in 1..(Len(changed) + Len(untracked)) |->
            IF i <= Len(changed) THEN StatusRecord(changed[i])
            ELSE StatusRecord(untracked[i - Len(changed)])]

\* package_deps.rs:138-153
parse_status(i) == [filename |-> i[4], x |-> i[1], y |-> i[2]]

Remove(map, key) == [k \in DOMAIN map \ {key} |-> map[k]]

\* The loop of append_git_status over the records of git status
\* (package_deps.rs:55-75).
RECURSIVE StatusLoop(_, _, _)
StatusLoop(records, map, files) ==
    IF records = <<>> THEN [hashes |-> map, to_hash |-> files]
    ELSE LET status == parse_status(Head(records))
             path == status.filename
             is_delete == status.x = "D" \/ status.y = "D"
         IN  IF is_delete
             THEN StatusLoop(Tail(records), Remove(map, path), files)
             ELSE StatusLoop(Tail(records), map, Append(files, path))

\* package_deps.rs:29-79
append_git_status(root_path, map) ==
    StatusLoop(git_status(root_path), map, <<>>)

\* package_deps.rs:13-27: with inputs the function is unimplemented; with
\* none it lists the package directory at HEAD and applies the status of
\* the repository.  to_hash is computed and not used.
get_package_deps ==
    /\ deps_phase = "idle"
    /\ \E inputs \in {<<>>, <<"x">>} :
          IF Len(inputs) = 0
          THEN LET turbo_root == <<>>
                   full_pkg_path == turbo_root \o package_path
                   listed == git_ls_tree(full_pkg_path)
                   status == append_git_status(turbo_root, listed)
               IN  /\ stdout' = git_status(turbo_root)
                   /\ hashes' = status.hashes
                   /\ to_hash' = status.to_hash
                   /\ deps_phase' = "done"
          ELSE /\ deps_phase' = "panic"
               /\ UNCHANGED <<stdout, hashes, to_hash>>
    /\ UNCHANGED <<package_path, head, worktree,
                   walk_vars, group_vars, id_vars>>

InitPackageDeps ==
    /\ WalkIdle /\ GroupIdle /\ ModuleIdIdle
    /\ package_path \in PackagePaths
    /\ head \in UNION {[T -> Hashes] : T \in SUBSET Files}
    /\ worktree \in UNION {[U -> TrackedStatus \cup {Untracked}] :
                             U \in SUBSET Files}
    /\ DOMAIN head \subseteq DOMAIN worktree
    /\ \A f \in DOMAIN worktree :
          worktree[f] = Untracked <=> f \notin DOMAIN head
    /\ hashes = EmptyFn
    /\ to_hash = <<>>
    /\ stdout = <<>>
    /\ deps_phase = "idle"

NextPackageDeps == get_package_deps

SpecPackageDeps == InitPackageDeps /\ [][NextPackageDeps]_vars

\* ---------------------------------------------------------- properties
\* Helpers of the properties below.
Range(q) == {q[i] : i \in 1..Len(q)}
NoDuplicates(q) == \A i, j \in 1..Len(q) : i # j => q[i] # q[j]
Index(q, x) == CHOOSE i \in 1..Len(q) : q[i] = x
Count(S) == Cardinality(S)
Pending(node) == IF node \in DOMAIN futures THEN futures[node] ELSE 0
Expanded(node) == IF node \in DOMAIN expanded THEN expanded[node] ELSE 0
Continued(node) ==
    Count({i \in 1..Len(log) : log[i].node = node /\ log[i].flow = "Continue"})
\* The nodes the walk returned as ChunkItem, Chunk or AsyncChunkGroup.
Emitted == Range(chunk_items) \cup Range(chunks) \cup Range(async_chunk_groups)
Known(call, asset) == <<call, asset>> \in DOMAIN facts
Holds(call, asset) == Known(call, asset) /\ facts[<<call, asset>>]
Fails(call, asset) == Known(call, asset) /\ ~facts[<<call, asset>>]

\* C1: in any walk, at most one edge of a key (chunking_type, asset) passes
\* the visitor as Continue; every later edge of that key gets Skip and is
\* not expanded (only Continue edges get an edges future), and at most one
\* ChunkItem, Chunk or AsyncChunkGroup is returned under the key.
C1_KeyVisitedOnce ==
    /\ \A i, j \in 1..Len(log) :
         (i < j /\ log[i].key # None /\ log[j].key = log[i].key)
            => log[j].flow = "Skip" /\ log[i].flow # "Abort"
    /\ \A i \in 1..Len(log) :
         Expanded(log[i].node) + Pending(log[i].node) <= Continued(log[i].node)
    /\ \A i \in 1..Len(log) :
         log[i].key # None =>
            Count({b \in {<<"chunk_items", p>> : p \in 1..Len(chunk_items)}
                      \cup {<<"chunks", p>> : p \in 1..Len(chunks)}
                      \cup {<<"async_chunk_groups", p>> :
                               p \in 1..Len(async_chunk_groups)} :
                     \E j \in 1..Len(log) :
                        /\ log[j].key = log[i].key
                        /\ log[j].node =
                             (CASE b[1] = "chunk_items" -> chunk_items[b[2]]
                                [] b[1] = "chunks" -> chunks[b[2]]
                                [] OTHER -> async_chunk_groups[b[2]])}) <= 1

\* C1 witness: a completed walk in which two references gave edges of the
\* same key and the second edge was skipped.
C1_Witness ==
    /\ outcome = "result"
    /\ \E i, j \in 1..Len(log) :
         /\ i < j /\ log[i].key # None /\ log[j].key = log[i].key
         /\ log[i].from # None /\ log[j].from # None
         /\ log[i].flow = "Continue" /\ log[j].flow = "Skip"
         /\ log[i].node \in Emitted

\* C3: when chunk_content (split = false) returns a result, chunk_items
\* holds fewer than MAX_CHUNK_ITEMS_COUNT entries.
C3_SizeBound ==
    (outcome = "result" /\ ~split) => Len(chunk_items) < MAX_CHUNK_ITEMS_COUNT

\* C3 witness: a result of chunk_content one chunk item short of the limit.
C3_Witness ==
    /\ outcome = "result" /\ ~split
    /\ Len(chunk_items) = MAX_CHUNK_ITEMS_COUNT - 1
    /\ chunk_items_count = MAX_CHUNK_ITEMS_COUNT - 1

\* C5: with split = true the visitor never returns Abort, whatever the
\* number of chunk items, so chunk_content_split never ends with "no
\* result" (nor with the panic of unwrapping it).
C5_SplitNeverAborts ==
    split =>
       /\ \A i \in 1..Len(log) : log[i].flow # "Abort"
       /\ outcome # "no_result"
       /\ (outcome = "panic" => log = <<>>)

\* C5 witness: a split walk that counted MAX_CHUNK_ITEMS_COUNT chunk items
\* and more, and returned a result.
C5_Witness ==
    /\ split /\ outcome = "result"
    /\ chunk_items_count > MAX_CHUNK_ITEMS_COUNT

\* The walk's availability info carries an available-assets set holding
\* the asset / known not to hold it.
Available(asset) ==
    availability_info.kind = "Inner" /\ Holds("includes", asset)
NotAvailable(asset) ==
    availability_info.kind = "Root" \/ Fails("includes", asset)

\* C2: no asset of the walk's available-assets set is returned as a
\* ChunkItem, Chunk or AsyncChunkGroup, root entries and additional entries
\* included.
C2_AvailableNeverEmitted ==
    outcome = "result" => \A node \in Emitted : ~Available(node.asset)

\* The reference graph over the assets: a -> b when a chunk item of asset a
\* lists a reference that resolves to b.
AssetEdges ==
    {e \in Assets \X Assets :
        \E n \in DOMAIN refs : \E i \in 1..Len(refs[n]) :
           n.asset = e[1] /\ e[2] \in Range(refs[n][i].primary)}
RECURSIVE Closure(_, _)
Closure(R, n) ==
    IF n = 0 THEN R
    ELSE Closure(R \cup {e \in Assets \X Assets :
                           \E b \in Assets : <<e[1], b>> \in R
                                             /\ <<b, e[2]>> \in R},
                 n - 1)
Acyclic == \A a \in Assets : <<a, a>> \notin Closure(AssetEdges, NumAssets)

\* The log entries that are reference edges between chunk items made by
\* Placed, or by PlacedOrParallel that became a chunk item.
PlacedEdges ==
    {i \in 1..Len(log) :
        /\ log[i].from # None /\ log[i].key # None
        /\ log[i].node.tag = "ChunkItem"
        /\ log[i].key[1][2] \in {"Placed", "PlacedOrParallel"}}

\* C4: in a completed walk over an acyclic reference graph, for every
\* reference edge from chunk item u to chunk item v, both in chunk_items,
\* v comes before u, also when the edge was skipped as a duplicate.
C4_ReverseTopological ==
    (outcome = "result" /\ Acyclic) =>
       \A i \in PlacedEdges :
          LET u == log[i].from[1]
              v == log[i].node
          IN  (u \in Range(chunk_items) /\ v \in Range(chunk_items))
                 => Index(chunk_items, v) < Index(chunk_items, u)

\* C4 witness: such a walk with an edge u -> v skipped as a duplicate, v
\* first reached through another referrer.
C4_Witness ==
    /\ outcome = "result" /\ Acyclic
    /\ \E i \in PlacedEdges : \E j \in PlacedEdges :
         /\ j < i /\ log[j].node = log[i].node
         /\ log[j].flow = "Continue" /\ log[i].flow = "Skip"
         /\ log[j].from # log[i].from
         /\ log[i].from[1] \in Range(chunk_items)
         /\ log[i].node \in Range(chunk_items)

\* C6: in one walk an asset gives at most one entry of chunk_items, and is
\* never both a chunk item and a parallel Chunk.
C6_OneChunkItemPerAsset ==
    outcome = "result" =>
       \A a \in Assets :
          /\ Count({p \in 1..Len(chunk_items) :
                      chunk_items[p] = ChunkItemNode("from_asset", a)}) <= 1
          /\ ~(/\ ChunkItemNode("from_asset", a) \in Range(chunk_items)
               /\ \E c \in Range(chunks) : c.asset = a)

Total(bag) == SumOver(bag, DOMAIN bag)

\* C7: every walk terminates, cycles included: each completed edges future
\* is the expansion of one Continue edge, each key is continued at most
\* once, so the expansions done and pending never exceed the keys
\* processed, which are at most the (chunking_type, asset) pairs; and a
\* running walk always has a future left to complete.
C7_Terminates ==
    /\ Total(expanded) + Total(futures) <= Cardinality(processed_assets)
    /\ processed_assets \subseteq ChunkingType \X Assets
    /\ phase = "running" => DOMAIN futures # {}
    /\ phase = "done" => outcome # "pending"

\* C7 witness: a completed walk over a cycle A -> B -> A, closed by a
\* reference back to the entry.
C7_Witness ==
    /\ outcome = "result" /\ ~Acyclic
    /\ \E i \in 1..Len(log) :
         /\ log[i].from # None /\ log[i].flow = "Skip"
         /\ log[i].node = ChunkItemNode("from_asset", entry)
         /\ log[i].from[1] # ChunkItemNode("from_asset", entry)

\* The classifier gets past the asset: it is available, or it is chunkable
\* and the reference's chunking type yields a node for it.
Produces(shape, asset) ==
    \/ Available(asset)
    \/ /\ NotAvailable(asset) /\ Holds("ChunkableAsset", asset)
       /\ shape.chunking_type = "Placed" => Holds("from_asset", asset)
       /\ shape.chunking_type = "SeparateAsync"
             => Holds("from_async_asset", asset)
\* The classifier reaches the j-th primary asset of the reference.
Reaches(shape, j) ==
    /\ shape.chunkable /\ shape.chunking_type # "None"
    /\ j \in 1..Len(shape.primary)
    /\ \A k \in 1..(j - 1) : Produces(shape, shape.primary[k])

\* A Placed reference of the chunk item reaches a chunkable asset that is
\* not available and for which from_asset returns None.
FailingPlaced(node) ==
    \E i \in 1..Len(refs[node]) : \E j \in 1..Len(refs[node][i].primary) :
       /\ refs[node][i].chunking_type = "Placed"
       /\ Reaches(refs[node][i], j)
       /\ NotAvailable(refs[node][i].primary[j])
       /\ Holds("ChunkableAsset", refs[node][i].primary[j])
       /\ Fails("from_asset", refs[node][i].primary[j])

\* C8: once the references of a chunk item with such a Placed reference
\* are classified, the walk has ended with an error, with split = false
\* and with split = true, and the error is final: the caller's retry with
\* chunk_content_split follows "no result" only.
C8_PlacedErrorIsFatal ==
    /\ \A node \in DOMAIN expanded :
          FailingPlaced(node) => phase = "done" /\ outcome = "error"
    /\ outcome = "error" => ~ENABLED chunk_content_split

\* C8 witness: a split walk that ended with the error.
C8_Witness ==
    /\ split /\ outcome = "error"
    /\ \E node \in DOMAIN expanded : FailingPlaced(node)

\* C9: when the classifier reaches, in a chunkable reference with several
\* primary assets, an asset that fails the ChunkableAsset cast, it returns
\* exactly the one un-keyed ExternalAssetReference edge of the reference.
C9_CastFailureDowngrades ==
    \A id \in DOMAIN classified :
       LET shape == refs[id[1]][id[2]]
       IN  (\E j \in 1..Len(shape.primary) :
               /\ Reaches(shape, j)
               /\ NotAvailable(shape.primary[j])
               /\ Fails("ChunkableAsset", shape.primary[j]))
           => classified[id] =
                [result |-> "Ok",
                 edges |-> <<Edge(None,
                                  ExternalAssetReferenceNode(
                                      Reference(id[1], refs[id[1]],
                                                id[2])))>>]

\* C9 witness: a reference whose first primary asset gave a node and whose
\* second fails the cast.
C9_Witness ==
    \E id \in DOMAIN classified :
       LET shape == refs[id[1]][id[2]]
       IN  /\ Len(shape.primary) = 2
           /\ Reaches(shape, 2)
           /\ NotAvailable(shape.primary[1])
           /\ NotAvailable(shape.primary[2])
           /\ Fails("ChunkableAsset", shape.primary[2])
           /\ Len(classified[id].edges) = 1

C11_SplitAlwaysSucceeds ==
    (split /\ phase = "done") => outcome = "result"

\* C12: for fixed inputs the outcome of a walk and the contents and order
\* of the four lists of its result do not depend on the order in which the
\* edges futures complete: the same call on the same inputs returns what it
\* returned before.
C12_SameReturnInEveryOrder ==
    (phase = "done" /\ previous # None) => Return = previous[1]

\* The log entries of the chunking type that gave a Chunk node.
ChunkEdges(chunking_type) ==
    {i \in 1..Len(log) :
        /\ log[i].key # None /\ log[i].key[1][2] = chunking_type
        /\ log[i].node.tag = "Chunk"}

\* C13: the Chunk of an IsolatedParallel reference is built with
\* availability info Root { current_availability_root = the referenced
\* asset }, whatever the availability info of the walk; the Chunk of a
\* Parallel reference is built with the availability info of the walk.
C13_IsolatedParallelIsRoot ==
    /\ \A i \in ChunkEdges("IsolatedParallel") :
          /\ log[i].node.asset = log[i].key[1][1]
          /\ log[i].node.info = "Root"
          /\ log[i].node.root = log[i].key[1][1]
    /\ \A i \in ChunkEdges("Parallel") :
          /\ log[i].node.asset = log[i].key[1][1]
          /\ log[i].node.info = availability_info.kind
          /\ log[i].node.root = availability_info.root

\* C13 witness: a walk with an available-assets set that returned the
\* chunk of an IsolatedParallel reference and the chunk of a Parallel
\* reference, neither to the availability root.
C13_Witness ==
    /\ outcome = "result" /\ availability_info.kind = "Inner"
    /\ \E i \in ChunkEdges("IsolatedParallel") :
       \E j \in ChunkEdges("Parallel") :
          /\ log[i].node \in Range(chunks) /\ log[j].node \in Range(chunks)
          /\ log[i].node.asset # availability_info.root
          /\ log[j].node.asset # availability_info.root

\* C14: the group built by ChunkGroup::evaluated(main, others) has the
\* evaluatable assets `others`, in their order, followed by main as the
\* last element, and its entry chunk is the root chunk of main.
C14_MainEntryLast ==
    (built_by # None /\ built_by[1].constructor = "evaluated") =>
       LET g == group[1]
           main == built_by[1].main_entry
           others == built_by[1].other_entries
           n == Len(g.evaluatable_assets)
       IN  /\ n = Len(others) + 1
           /\ g.evaluatable_assets[n] = main
           /\ SubSeq(g.evaluatable_assets, 1, n - 1) = others
           /\ g.entry = [tag |-> "Chunk", asset |-> main, info |-> "Root",
                         root |-> main]

\* C14 witness: a group built from a main entry and two different other
\* entries.
C14_Witness ==
    /\ built_by # None /\ built_by[1].constructor = "evaluated"
    /\ Len(built_by[1].other_entries) = 2
    /\ built_by[1].other_entries[1] # built_by[1].other_entries[2]
    /\ built_by[1].main_entry \notin Range(built_by[1].other_entries)
    /\ group_phase = "done"

\* The root chunks of the group and the chunk-children relation, as the
\* references read so far give it: D is a child of C when a reference of C
\* implements ParallelChunkReference, is loaded in parallel and has D, a
\* Chunk, among its primary results.
RootChunks ==
    {group[1].entry} \cup
    {[tag |-> "Chunk", asset |-> a, info |-> "Root", root |-> a] :
        a \in Range(group[1].evaluatable_assets)}
IsChild(c, d) ==
    /\ c \in DOMAIN chunk_references
    /\ \E i \in 1..Len(chunk_references[c]) :
          /\ chunk_references[c][i].parallel_chunk_reference
          /\ chunk_references[c][i].is_loaded_in_parallel
          /\ d \in Range(chunk_references[c][i].primary)
          /\ d.tag = "Chunk"
RECURSIVE ReachableChunks(_, _)
ReachableChunks(S, n) ==
    IF n = 0 THEN S
    ELSE ReachableChunks(
             S \cup {d \in GroupChunks : \E c \in S : IsChild(c, d)}, n - 1)

\* C15: the chunk list handed to the optimizer holds exactly the chunks
\* reachable from the root chunks through the chunk-children relation, each
\* once; and the traversal terminates, since a chunk gets one future at
\* most and a running traversal has a future left.
C15_ReachableChunksOnce ==
    /\ group_phase = "done" =>
          /\ Range(group_chunks) = ReachableChunks(RootChunks, NumAssets)
          /\ NoDuplicates(group_chunks)
    /\ group_phase = "running" => traversal.futures # {}
    /\ traversal.futures \subseteq traversal.visited
    /\ traversal.futures \cap DOMAIN chunk_children = {}
    /\ group_phase # "idle" =>
          traversal.visited \subseteq GroupChunks \cup {group[1].entry}

\* C15 witness: a finished traversal of a group built by evaluated (the
\* root chunk of the main entry is the entry chunk) over two chunks that
\* reference each other in parallel.
C15_Witness ==
    /\ group_phase = "done" /\ built_by[1].constructor = "evaluated"
    /\ \E c, d \in Range(group_chunks) :
          c # d /\ IsChild(c, d) /\ IsChild(d, c)

\* C16: the children get_chunk_children returns for a chunk C are exactly
\* the chunks D such that a reference of C implements
\* ParallelChunkReference, is loaded in parallel and resolves to D; the
\* chunk of a ChunkReference::new_parallel is always a child and in the
\* group, and a chunk comes into the group only as a root chunk or as such
\* a child, never by a ChunkReference::new.
C16_ChildrenAreParallelChunks ==
    /\ \A c \in DOMAIN chunk_children :
          /\ Range(chunk_children[c]) = {d \in GroupChunks : IsChild(c, d)}
          /\ \A d \in GroupChunks :
                ChunkReference_new_parallel(d) \in Range(chunk_references[c])
                   => /\ d \in Range(chunk_children[c])
                      /\ d \in traversal.visited
    /\ group_phase # "idle" =>
          \A d \in traversal.visited \ RootChunks :
             \E c \in traversal.visited : IsChild(c, d)

\* C16 witness: a finished traversal in which a chunk has a
\* ChunkReference::new to a chunk left out of the group and a
\* ChunkReference::new_parallel to a chunk of the group.
C16_Witness ==
    /\ group_phase = "done"
    /\ \E c \in DOMAIN chunk_children : \E d1, d2 \in GroupChunks :
          /\ ChunkReference_new(d1) \in Range(chunk_references[c])
          /\ ChunkReference_new_parallel(d2) \in Range(chunk_references[c])
          /\ d1 \notin Range(group_chunks)
          /\ d2 \in Range(group_chunks) /\ d2 \notin RootChunks

\* The positions of the evaluate chunks in the output of ChunkGroup::chunks.
EvaluateChunks ==
    {i \in 1..Len(output_assets) : output_assets[i].kind = "evaluate"}

\* C17: ChunkGroup::chunks appends an evaluate chunk exactly when the
\* group has evaluatable assets and the chunking context implements
\* EvaluateChunkingContext; it is then the one, last output asset, given
\* the entry chunk, the output assets before it and the group's
\* evaluatable assets.  Groups of from_asset and from_chunk get none.
C17_EvaluateChunkLast ==
    group_phase = "done" =>
       LET g == group[1]
           n == Len(output_assets)
       IN  /\ EvaluateChunks # {}
                <=> (g.evaluatable_assets # <<>> /\ chunking_context.evaluate)
           /\ EvaluateChunks # {} =>
                 /\ EvaluateChunks = {n}
                 /\ output_assets[n].chunk = g.entry
                 /\ output_assets[n].other_assets
                       = SubSeq(output_assets, 1, n - 1)
                 /\ output_assets[n].evaluatable_assets
                       = g.evaluatable_assets
           /\ built_by[1].constructor \in {"from_asset", "from_chunk"}
                 => EvaluateChunks = {}

\* C17 witness: an output of two generated chunks and the evaluate chunk.
C17_Witness ==
    /\ group_phase = "done"
    /\ Len(output_assets) = 3 /\ EvaluateChunks = {3}
    /\ Len(group[1].evaluatable_assets) = 2

\* The string is a decimal representation of a u32: digits only, leading
\* zeros allowed, the value at most u32::MAX.
IsDecimalU32(str) ==
    /\ str # <<>>
    /\ \A i \in 1..Len(str) : IsDigit(str[i])
    /\ DigitsLessEq(StripZeros(str), U32_MAX)

\* C18: ModuleId round trip: displaying ModuleId::parse(s) gives back s
\* for every decimal representation s of a u32, leading zeros included;
\* every other string s parses to String(s) and displays as s.
C18_RoundTrip ==
    displayed # None =>
       /\ displayed[1] = id_string
       /\ ~IsDecimalU32(id_string)
             => module_id[1].value = String(id_string)

\* The string is a non-negative integer: an optional plus sign and digits.
IsNonNegativeInteger(str) ==
    LET body == IF str # <<>> /\ Head(str) = "+" THEN Tail(str) ELSE str
    IN  body # <<>> /\ \A i \in 1..Len(body) : IsDigit(body[i])

\* C19 as stated: ModuleId::parse gives Number for every input that parses
\* as a non-negative integer, of any magnitude, String otherwise, and never
\* an error.
C19_NumberForEveryInteger ==
    module_id # None =>
       /\ module_id[1].result = "Ok"
       /\ module_id[1].value.variant = "Number"
             <=> IsNonNegativeInteger(id_string)

\* C19 amended: ModuleId::parse gives Number(n) exactly for the inputs that
\* parse as a u32 (value n at most 4294967295), and String of the input
\* for every other input, integers from 2^32 on included; never an error.
C19_NumberIffU32 ==
    module_id # None =>
       LET body == IF id_string # <<>> /\ Head(id_string) = "+"
                   THEN Tail(id_string) ELSE id_string
       IN  /\ module_id[1].result = "Ok"
           /\ IF IsNonNegativeInteger(id_string)
                 /\ DigitsLessEq(StripZeros(body), U32_MAX)
              THEN module_id[1].value = Number(StripZeros(body))
              ELSE module_id[1].value = String(id_string)

\* C19 witness: the integer 2^32 was parsed, to a String.
C19_Witness ==
    /\ id_string = NineDigits \o <<"6">>
    /\ module_id # None /\ module_id[1].value.variant = "String"

\* The files of the package, and the files git status reports as deleted.
InPackage(f) == IsPrefix(package_path, f)
Deleted(f) ==
    f \in DOMAIN head /\ (worktree[f][1] = "D" \/ worktree[f][2] = "D")

\* C20: get_package_deps with empty inputs returns no entry for a file of
\* the package that is tracked at HEAD and reported by git status with D
\* in either column, and every tracked, undeleted file of the package
\* keeps its HEAD hash under its package-relative path.
C20_DeletedFilesRemoved ==
    deps_phase = "done" =>
       \A f \in DOMAIN head :
          InPackage(f) =>
             LET key == RelativeTo(package_path, f)
             IN  IF Deleted(f) THEN key \notin DOMAIN hashes
                 ELSE key \in DOMAIN hashes /\ hashes[key] = head[f]

\* The hash of the current content of a file of the working tree: that of
\* HEAD for an unchanged file, another one for a modified file.
CurrentHash(f) ==
    IF f \notin DOMAIN head THEN 1
    ELSE IF worktree[f] = <<" ", "M">> THEN (head[f] % NumHashes) + 1
    ELSE head[f]

\* C21: get_package_deps with empty inputs returns, for every untracked or
\* modified file inside the package, an entry under its package-relative
\* path with the hash of its current content, and no entry for an
\* untracked file outside the package directory.
C21_ChangedFilesHashed ==
    deps_phase = "done" =>
       \A f \in DOMAIN worktree :
          IF InPackage(f)
          THEN worktree[f] \in {Untracked, <<" ", "M">>} =>
                  LET key == RelativeTo(package_path, f)
                  IN  key \in DOMAIN hashes /\ hashes[key] = CurrentHash(f)
          ELSE worktree[f] = Untracked =>
                  \A key \in DOMAIN hashes :
                     package_path \o key \in DOMAIN head

\* The keyed edges the classifier returned for the reference, other than
\* those of available assets.
ClassifiedEdges(id) ==
    {i \in 1..Len(classified[id].edges) :
        /\ classified[id].edges[i].key # None
        /\ classified[id].edges[i].node.tag # "AvailableAsset"}

\* C22: for a PlacedOrParallel reference to a chunkable asset that is not
\* available the classifier gives a ChunkItem exactly when split = false,
\* can_be_in_same_chunk(entry, asset) holds and from_asset gives a chunk
\* item; otherwise it gives the asset's Chunk with the availability info
\* of the walk.  It never fails, and with split = true it gives no
\* ChunkItem.
C22_PlacedOrParallel ==
    \A id \in DOMAIN classified :
       refs[id[1]][id[2]].chunking_type = "PlacedOrParallel" =>
          /\ classified[id].result = "Ok"
          /\ \A i \in ClassifiedEdges(id) :
                LET e == classified[id].edges[i]
                    asset == e.key[1][1]
                IN  /\ e.key[1][2] = "PlacedOrParallel"
                    /\ e.node.asset = asset
                    /\ e.node.tag = "ChunkItem"
                          <=> /\ ~split
                              /\ Holds("can_be_in_same_chunk", asset)
                              /\ Holds("from_asset", asset)
                    /\ e.node.tag # "ChunkItem" =>
                          /\ e.node.tag = "Chunk"
                          /\ e.node.info = availability_info.kind
                          /\ e.node.root = availability_info.root

\* C22 witness: in the retry with split = true a PlacedOrParallel
\* reference gave a Chunk for an asset that can be in the same chunk and
\* has a chunk item.
C22_Witness ==
    /\ split
    /\ \E id \in DOMAIN classified : \E i \in ClassifiedEdges(id) :
          LET e == classified[id].edges[i]
          IN  /\ refs[id[1]][id[2]].chunking_type = "PlacedOrParallel"
              /\ e.node.tag = "Chunk"
              /\ Holds("can_be_in_same_chunk", e.key[1][1])
              /\ Holds("from_asset", e.key[1][1])

\* The keyed ChunkItem edges visited for the first time: root entries,
\* placed items and async loader items.
FirstTimeChunkItems ==
    {i \in 1..Len(log) :
        /\ log[i].key # None /\ log[i].flow # "Skip"
        /\ log[i].node.tag = "ChunkItem"}

\* C23: a walk with split = false that ends without error returns "no
\* result" exactly when the number of keyed ChunkItem edges visited for the
\* first time reaches MAX_CHUNK_ITEMS_COUNT; with fewer of them it returns
\* a result, and it never visits more.
C23_NoResultAtTheLimit ==
    (~split /\ phase = "done" /\ outcome \in {"result", "no_result"}) =>
       /\ Count(FirstTimeChunkItems) <= MAX_CHUNK_ITEMS_COUNT
       /\ outcome = "no_result"
             <=> Count(FirstTimeChunkItems) = MAX_CHUNK_ITEMS_COUNT

\* C23 witness: a walk that returned a result one chunk item below the
\* limit, an async loader item among them.
C23_Witness ==
    /\ ~split /\ outcome = "result"
    /\ Count(FirstTimeChunkItems) = MAX_CHUNK_ITEMS_COUNT - 1
    /\ \E i \in FirstTimeChunkItems : log[i].key[1][2] = "SeparateAsync"

\* C24: only ChunkItem nodes are expanded: the references of a node that
\* is an AvailableAsset, a Chunk, an AsyncChunkGroup or an
\* ExternalAssetReference are never read, every edge comes from the roots
\* or from a ChunkItem, and every node of a returned bucket was reached
\* from the roots or from a chunk item of the result.
C24_OnlyChunkItemsExpanded ==
    /\ \A node \in DOMAIN expanded \cup DOMAIN refs \cup DOMAIN futures :
          node.tag = "ChunkItem"
    /\ \A i \in 1..Len(log) :
          log[i].from # None => log[i].from[1].tag = "ChunkItem"
    /\ outcome = "result" =>
          \A n \in Emitted \cup Range(external_asset_references) :
             \E i \in 1..Len(log) :
                /\ log[i].node = n
                /\ log[i].from # None => log[i].from[1] \in Range(chunk_items)

\* C24 witness: the entry has a Placed reference to an available asset
\* and the walk returned the entry's chunk item alone.
C24_Witness ==
    /\ outcome = "result"
    /\ chunk_items = <<ChunkItemNode("from_asset", entry)>>
    /\ chunks = <<>> /\ async_chunk_groups = <<>>
    /\ external_asset_references = <<>>
    /\ \E i \in 1..Len(log) :
          /\ log[i].node.tag = "AvailableAsset"
          /\ log[i].key[1][2] = "Placed"
          /\ log[i].flow = "Continue"

\* The log entries that are SeparateAsync reference edges to a loader.
LoaderEdges ==
    {i \in 1..Len(log) :
        /\ log[i].from # None /\ log[i].key # None
        /\ log[i].key[1][2] = "SeparateAsync"
        /\ log[i].node.tag = "ChunkItem"}

\* What the classifier does with SeparateAsync references: a chunkable
\* asset S that is not available gives the loader of from_async_asset as a
\* ChunkItem under the key (S, SeparateAsync); when from_async_asset gives
\* none the reference is one un-keyed ExternalAssetReference; no
\* AsyncChunkGroup of the result comes from a SeparateAsync reference.
SeparateAsyncClassified ==
    /\ \A id \in DOMAIN classified :
          LET shape == refs[id[1]][id[2]]
          IN  shape.chunking_type = "SeparateAsync" =>
                 /\ classified[id].result = "Ok"
                 /\ \A i \in ClassifiedEdges(id) :
                       LET e == classified[id].edges[i]
                       IN  /\ e.key[1][2] = "SeparateAsync"
                           /\ e.node = ChunkItemNode("from_async_asset",
                                                     e.key[1][1])
                           /\ Holds("from_async_asset", e.key[1][1])
                 /\ (\E j \in 1..Len(shape.primary) :
                        /\ Reaches(shape, j)
                        /\ NotAvailable(shape.primary[j])
                        /\ Holds("ChunkableAsset", shape.primary[j])
                        /\ Fails("from_async_asset", shape.primary[j]))
                    => classified[id].edges =
                          <<Edge(None,
                                 ExternalAssetReferenceNode(
                                     Reference(id[1], refs[id[1]], id[2])))>>
    /\ outcome = "result" =>
          \A n \in Range(async_chunk_groups) :
             \E i \in 1..Len(log) :
                log[i].node = n /\ log[i].key[1][2] = "Separate"

\* The loader of every SeparateAsync edge of the walk is in chunk_items
\* before the chunk item that made the reference.
LoaderPrecedesReferrer ==
    \A i \in LoaderEdges :
       /\ log[i].node \in Range(chunk_items)
       /\ log[i].from[1] \in Range(chunk_items)
       /\ Index(chunk_items, log[i].node)
             < Index(chunk_items, log[i].from[1])

\* C25 as stated: SeparateAsync references are classified as above and,
\* in every completed walk, the loader precedes its referrer in
\* chunk_items.
C25_LoaderPrecedesReferrer ==
    /\ SeparateAsyncClassified
    /\ outcome = "result" => LoaderPrecedesReferrer

\* C25 amended: SeparateAsync references are classified as above and, in
\* every completed walk over an acyclic reference graph, the loader
\* precedes its referrer in chunk_items.
C25_LoaderPrecedesReferrerIfAcyclic ==
    /\ SeparateAsyncClassified
    /\ (outcome = "result" /\ Acyclic) => LoaderPrecedesReferrer

\* C25 witness: a completed walk over an acyclic graph with a loader that
\* is not the entry's, and no async chunk group.
C25_Witness ==
    /\ outcome = "result" /\ Acyclic
    /\ async_chunk_groups = <<>>
    /\ \E i \in LoaderEdges :
          /\ log[i].flow = "Continue"
          /\ log[i].node.asset # entry
          /\ log[i].node \in Range(chunk_items)

\* The log entries of the edges without a key, and of those with one.
UnkeyedEdges == {i \in 1..Len(log) : log[i].key = None}
KeyedEdges == {i \in 1..Len(log) : log[i].key # None}

\* Every edge without a key got Continue, and those edges left no trace in
\* the visitor: processed_assets holds the keys of the keyed edges and
\* nothing else, chunk_items_count counts keyed edges only.
UnkeyedAlwaysContinue ==
    /\ \A i \in UnkeyedEdges :
          /\ log[i].flow = "Continue"
          /\ log[i].node.tag = "ExternalAssetReference"
    /\ phase # "idle" =>
          /\ processed_assets =
                {<<log[i].key[1][2], log[i].key[1][1]>> : i \in KeyedEdges}
          /\ chunk_items_count =
                Count({i \in KeyedEdges : log[i].flow # "Skip"
                                          /\ log[i].node.tag = "ChunkItem"})

Delivered == ReverseTopologicalOrder(adjacency_map, roots)
OfVariant(tag) == SelectSeq(Delivered, LAMBDA n : n.tag = tag)

\* C27: the result of a completed walk holds every delivered node in the
\* one bucket of its variant, in the order of delivery, and no
\* AvailableAsset node; the availability info of the result is the one the
\* walk was called with.
C27_AssemblerBuckets ==
    outcome = "result" =>
       /\ chunk_items = OfVariant("ChunkItem")
       /\ chunks = OfVariant("Chunk")
       /\ async_chunk_groups = OfVariant("AsyncChunkGroup")
       /\ external_asset_references = OfVariant("ExternalAssetReference")
       /\ Len(chunk_items) + Len(chunks) + Len(async_chunk_groups)
             + Len(external_asset_references)
             + Len(OfVariant("AvailableAsset")) = Len(Delivered)
       /\ result_availability_info = Some(availability_info)

\* C27 witness: a completed walk with available assets that delivered an
\* AvailableAsset node, two chunk items and a node of another bucket.
C27_Witness ==
    /\ outcome = "result" /\ availability_info.kind = "Inner"
    /\ OfVariant("AvailableAsset") # <<>>
    /\ Len(chunk_items) >= 2
    /\ chunks # <<>> \/ async_chunk_groups # <<>>
          \/ external_asset_references # <<>>

\* C28: two runs of ChunkGroup::chunks on the same chunk group hand the
\* same ordered chunk list to the optimizer and, the optimizer leaving the
\* list as it is, return the same ordered output asset list, whatever the
\* iteration order of the set of root chunks.
C28_SameChunksInEveryOrder ==
    (group_phase = "done" /\ returned_before # None) =>
       /\ group_chunks = returned_before[1].group_chunks
       /\ (/\ Unoptimized(group_chunks, output_assets)
           /\ Unoptimized(returned_before[1].group_chunks,
                          returned_before[1].output_assets))
          => output_assets = returned_before[1].output_assets

\* The keys of processed_assets whose first edge, the one that inserted
\* the key, carried a ChunkItem node.
ChunkItemKeys ==
    {k \in processed_assets :
        \E i \in 1..Len(log) :
           /\ log[i].key = Some(<<k[2], k[1]>>)
           /\ \A j \in 1..(i - 1) : log[j].key # log[i].key
           /\ log[i].node.tag = "ChunkItem"}

CountWithinKeys ==
    /\ chunk_items_count = Count(ChunkItemKeys)
    /\ chunk_items_count <= Count(processed_assets)
    /\ ~split => chunk_items_count <= MAX_CHUNK_ITEMS_COUNT

\* C29: in every state of a walk chunk_items_count is the number of keys
\* of processed_assets whose first edge carried a ChunkItem node; it is at
\* most the size of processed_assets and, with split = false, at most
\* MAX_CHUNK_ITEMS_COUNT; and no step of a walk makes it smaller.
C29_CountOfChunkItemKeys ==
    /\ []CountWithinKeys
    /\ [][phase = "running" => chunk_items_count' >= chunk_items_count]_vars

\* C29 witness: a walk that counted two chunk items, with a key in
\* processed_assets that gave no chunk item and a key visited twice.
C29_Witness ==
    /\ chunk_items_count = 2
    /\ Count(processed_assets) > chunk_items_count
    /\ \E i \in 1..Len(log) : log[i].flow = "Skip"

\* The entry and the additional entries, and the log entries of the Placed
\* references to one of them.
RootAssets == {entry} \cup Range(additional_entries)
PlacedBackEdges ==
    {i \in 1..Len(log) :
        /\ log[i].from # None /\ log[i].key # None
        /\ log[i].key[1][2] = "Placed"
        /\ log[i].key[1][1] \in RootAssets}

\* C30: the root edges, keyed (asset, Placed), are visited before any
\* reference; every Placed reference to the entry or to an additional
\* entry is skipped; a completed walk has the chunk item of the entry and
\* of every additional entry in chunk_items, and the entry's chunk item
\* last when the reference graph is acyclic and there are no additional
\* entries.
C30_RootsInChunkItems ==
    /\ \A i \in 1..Len(log) :
          i <= 1 + Len(additional_entries) <=> log[i].from = None
    /\ \A i \in 1..Len(log) :
          log[i].from = None =>
             /\ log[i].key =
                   Some(<<(<<entry>> \o additional_entries)[i], "Placed">>)
             /\ log[i].node = ChunkItemNode("from_asset", log[i].key[1][1])
    /\ \A i \in PlacedBackEdges : log[i].flow = "Skip"
    /\ outcome = "result" =>
          /\ \A a \in RootAssets :
                ChunkItemNode("from_asset", a) \in Range(chunk_items)
          /\ (Acyclic /\ additional_entries = <<>>) =>
                chunk_items[Len(chunk_items)]
                   = ChunkItemNode("from_asset", entry)

\* C30 witness: a completed walk with an additional entry other than the
\* entry, to which a chunk item has a Placed reference.
C30_Witness ==
    /\ outcome = "result"
    /\ additional_entries # <<>> /\ additional_entries[1] # entry
    /\ \E i \in PlacedBackEdges :
          /\ log[i].key[1][1] = additional_entries[1]
          /\ log[i].node.tag = "ChunkItem"
          /\ log[i].flow = "Skip"

====
